---------------------------- MODULE Spec2Model ----------------------------
(***************************************************************************)
(* Model of the VCS dialogs of eric6 that scrape line-oriented command     *)
(* output into widgets:                                                    *)
(*   - GitReflogBrowserDialog   (git log --walk-reflogs, QProcess based)   *)
(*   - HgBookmarksListDialog    (hg bookmarks, command server)             *)
(*   - HgQueuesListGuardsDialog (hg qguard, command server)                *)
(*                                                                         *)
(* Text is modelled as a sequence of one-character strings, so that the    *)
(* Python string operations (strip, rstrip, split) are computed the way    *)
(* the interpreter computes them.                                          *)
(***************************************************************************)
EXTENDS Integers, Sequences, FiniteSets, TLC

(***************************************************************************)
(* Python str operations on character sequences.                           *)
(***************************************************************************)

\* str.isspace() for the characters of the model's alphabet
IsSpace(c) == c \in {" ", "\n", "\t"}

\* characters for which str.isdecimal() holds / that are in "1234567890"
Digits == {"0", "1", "2", "3", "4", "5", "6", "7", "8", "9"}

RECURSIVE RStrip(_)
\* str.rstrip(): drop trailing whitespace
RStrip(s) ==
    IF s = <<>> THEN <<>>
    ELSE IF IsSpace(s[Len(s)]) THEN RStrip(SubSeq(s, 1, Len(s) - 1))
    ELSE s

RECURSIVE LStrip(_)
\* str.lstrip(): drop leading whitespace
LStrip(s) ==
    IF s = <<>> THEN <<>>
    ELSE IF IsSpace(Head(s)) THEN LStrip(Tail(s))
    ELSE s

\* str.strip()
Strip(s) == RStrip(LStrip(s))

\* s.startswith(p)
StartsWith(s, p) == Len(s) >= Len(p) /\ SubSeq(s, 1, Len(p)) = p

\* s.find(sep) + 1: index of the first occurrence of sep in s, 0 if none
Find(s, sep) ==
    LET hits == {i \in 1..(Len(s) - Len(sep) + 1) :
                    SubSeq(s, i, i + Len(sep) - 1) = sep}
    IN  IF hits = {} THEN 0 ELSE CHOOSE i \in hits : \A j \in hits : i <= j

\* s.split(sep, 1): a list of one element (no sep) or two elements
SplitOnce(s, sep) ==
    LET i == Find(s, sep)
    IN  IF i = 0 THEN <<s>>
        ELSE <<SubSeq(s, 1, i - 1), SubSeq(s, i + Len(sep), Len(s))>>

RECURSIVE SplitWS(_)
\* s.split(): the maximal runs of non-whitespace characters, in order
SplitWS(s) ==
    LET t == LStrip(s)
        ws == {i \in 1..Len(t) : IsSpace(t[i])}
        e == IF ws = {} THEN Len(t) + 1
             ELSE CHOOSE i \in ws : \A j \in ws : i <= j
    IN  IF t = <<>> THEN <<>>
        ELSE <<SubSeq(t, 1, e - 1)>> \o SplitWS(SubSeq(t, e, Len(t)))

RECURSIVE JoinSp(_)
\* " ".join(li)
JoinSp(li) ==
    IF li = <<>> THEN <<>>
    ELSE IF Len(li) = 1 THEN li[1]
    ELSE li[1] \o <<" ">> \o JoinSp(Tail(li))

\* the line terminator that QProcess.readLine() leaves at the end of a line
NL == <<"\n">>

(***************************************************************************)
(* GitReflogBrowserDialog: the output format and its parser.               *)
(***************************************************************************)

RECORDSTART == <<"r", "e", "c", "o", "r", "d", "s", "t", "a", "r", "t">>
RECORDEND == <<"r", "e", "c", "o", "r", "d", "e", "n", "d">>
COMMIT == <<"c", "o", "m", "m", "i", "t">>
SELECTOR == <<"s", "e", "l", "e", "c", "t", "o", "r">>
NAME == <<"n", "a", "m", "e">>
SUBJECT == <<"s", "u", "b", "j", "e", "c", "t">>

\* the keys __processBuffer stores: ("commit", "selector", "name", "subject")
LogKeys == {COMMIT, SELECTOR, NAME, SUBJECT}

\* the six lines git prints for one reflog entry under __formatTemplate,
\* rec = <<commit, selector, name, subject>>
FormatRecord(rec) ==
    << RECORDSTART \o NL,
       COMMIT \o <<"|">> \o rec[1] \o NL,
       SELECTOR \o <<"|">> \o rec[2] \o NL,
       NAME \o <<"|">> \o rec[3] \o NL,
       SUBJECT \o <<"|">> \o rec[4] \o NL,
       RECORDEND \o NL >>

RECURSIVE FormatRecords(_)
FormatRecords(recs) ==
    IF recs = <<>> THEN <<>>
    ELSE FormatRecord(Head(recs)) \o FormatRecords(Tail(recs))

\* s.split(sep), without a split limit, on the model's subjects: more than
\* two parts when sep occurs twice
SplitAll2(s, sep) ==
    LET p == SplitOnce(s, sep)
    IN  IF Len(p) = 1 THEN p ELSE <<p[1]>> \o SplitOnce(p[2], sep)

\* __generateReflogItem with subject.split(": ") in place of split(": ", 1)
GenerateReflogItemSplitAll(commitId, selector, name, subject) ==
    LET parts == SplitAll2(Strip(subject), <<":", " ">>)
    IN  IF Len(parts) = 2
        THEN [raised |-> "", row |-> <<commitId, selector, name, parts[1], parts[2]>>]
        ELSE [raised |-> "ValueError", row |-> <<>>]

\* __generateReflogItem: the column labels of the new row, or the
\* ValueError of unpacking a one-element split
GenerateReflogItem(commitId, selector, name, subject) ==
    LET parts == SplitOnce(Strip(subject), <<":", " ">>)
    IN  IF Len(parts) = 2
        THEN [raised |-> "", row |-> <<commitId, selector, name, parts[1], parts[2]>>]
        ELSE [raised |-> "ValueError", row |-> <<>>]

\* the loop body of __processBuffer for one line; st holds the loop's
\* locals (logEntry: bound or not, and its items), the rows added to
\* logTree so far, noEntries, and the exception that ended the loop
ProcessLine(st, line0) ==
    LET line == RStrip(line0)
        kv == SplitOnce(line, <<"|">>)
        key == IF Len(kv) = 2 THEN kv[1] ELSE <<>>
        value == IF Len(kv) = 2 THEN kv[2] ELSE line
    IN  IF line = RECORDSTART
        THEN [st EXCEPT !.bound = TRUE, !.logEntry = <<>>]
        ELSE IF line = RECORDEND
        THEN IF ~st.bound THEN [st EXCEPT !.raised = "UnboundLocalError"]
             ELSE IF Cardinality(DOMAIN st.logEntry) > 1
             THEN IF ~(LogKeys \subseteq DOMAIN st.logEntry)
                  THEN [st EXCEPT !.raised = "KeyError"]
                  ELSE LET g == GenerateReflogItem(
                                  st.logEntry[COMMIT], st.logEntry[SELECTOR],
                                  st.logEntry[NAME], st.logEntry[SUBJECT])
                       IN  IF g.raised # ""
                           THEN [st EXCEPT !.raised = g.raised]
                           ELSE [st EXCEPT !.rows = Append(@, g.row),
                                           !.noEntries = @ + 1]
             ELSE st
        ELSE IF key \in LogKeys
        THEN IF ~st.bound THEN [st EXCEPT !.raised = "UnboundLocalError"]
             ELSE [st EXCEPT !.logEntry =
                       [k \in (DOMAIN @) \cup {key} |->
                           IF k = key THEN Strip(value) ELSE @[k]]]
        ELSE st

RECURSIVE ProcessLoop(_, _)
\* "for line in self.buf": stops at the first exception
ProcessLoop(st, lines) ==
    IF lines = <<>> \/ st.raised # "" THEN st
    ELSE ProcessLoop(ProcessLine(st, Head(lines)), Tail(lines))

\* the loop of __processBuffer over the whole buffer
ProcessBufferLoop(lines) ==
    ProcessLoop([bound |-> FALSE, logEntry |-> <<>>, rows |-> <<>>,
                 noEntries |-> 0, raised |-> ""], lines)


(***************************************************************************)
(* Bounds of the model.                                                    *)
(***************************************************************************)

\* value of limitSpinBox (the "LogLimit" preference): --max-count
Limit == 1
\* number of entries in the repository's reflog
TotalEntries == 2
\* number of fetches (__getReflogEntries calls) in one behaviour
MaxFetches == 2
\* number of single-shot kill timers pending at one time
MaxTimers == 1
\* number of reflog entries in an output of whole records (parser inputs)
MaxRecords == 2
\* number of lines in an output of arbitrary lines (parser inputs)
MaxLines == 4

\* QTimer.singleShot(2000, self.process.kill)
KillDelay == 2000
\* self.process.waitForFinished(3000)
FinishWait == 3000
\* self.process.waitForStarted(5000)
StartWait == 5000

(***************************************************************************)
(* GitReflogBrowserDialog: state.                                          *)
(***************************************************************************)
VARIABLES
    buf,            \* self.buf: lines read from the process
    started,        \* self.__started
    skipEntries,    \* self.__skipEntries
    cancelled,      \* self.cancelled
    logTree,        \* rows of self.logTree: <<commit, selector, name, op, subject>>
    closeEnabled,   \* buttonBox.button(Close).isEnabled()
    cancelEnabled,  \* buttonBox.button(Cancel).isEnabled()
    refreshEnabled, \* refreshButton.isEnabled()
    nextEnabled,    \* nextButton.isEnabled() (limitSpinBox is set with it)
    inputEnabled,   \* inputGroup.isEnabled()
    inputVisible,   \* inputGroup is shown
    visible,        \* the dialog is shown
    repoOk,         \* self.repodir holds a directory with the admin dir
    cursors,        \* depth of QApplication's override cursor stack
    procState,      \* self.process.state(): "NotRunning" or "Running"
    procExited,     \* the OS process has ended, QProcess has not noticed yet
    procOut,        \* lines the running process has still to print
    killTimers,     \* remaining ms of each pending singleShot(.., process.kill)
    fetches,        \* number of __getReflogEntries calls so far
    msgBoxes,       \* number of critical message boxes shown
    ev,             \* the handler that ran last
    calls,          \* the QProcess/QTimer/GUI calls the last handler made, in order
    raised,         \* the exception that escaped the last handler ("" if none)
    rowHistory,     \* commit ids of all rows ever added to logTree
    rowTwice,       \* some commit id was added to logTree a second time
    gitRecs,        \* the reflog entries the launched command prints, as
                    \* <<commit, selector, name, operation, text>> (<<>> when
                    \* its output is not a sequence of whole records)
    refreshRun,     \* the value of fetches at the fetch of the last Refresh,
                    \* 0 when start() was called from outside since
    timerStale      \* for each pending timer: a process is alive that was
                    \* launched after the timer was scheduled

rvars == <<buf, started, skipEntries, cancelled, logTree, closeEnabled,
           cancelEnabled, refreshEnabled, nextEnabled, inputEnabled,
           inputVisible, visible, repoOk, cursors, procState, procExited,
           procOut, killTimers, fetches, msgBoxes, ev, calls, raised,
           rowHistory, rowTwice, gitRecs, refreshRun, timerStale>>

\* HgBookmarksListDialog
VARIABLES
    bmRows,           \* rows of self.bookmarksList (the tree widget)
    bmList,           \* the caller's list that start() received
    bmListSet,        \* self.__bookmarksList is not None
    bmDefined,        \* self.__bookmarksDefined
    bmRefreshEnabled, \* refreshButton.isEnabled()
    bmCloseEnabled,   \* buttonBox.button(Close).isEnabled()
    bmCancelEnabled,  \* buttonBox.button(Cancel).isEnabled()
    bmRepoSet,        \* self.__repoDir is set
    bmEv,             \* the handler that ran last
    bmCalls,          \* "runcommand" and "finish" as the last handler reached them
    bmRaised,         \* the exception that escaped the last handler
    bmSent,           \* the items of the output of the last command
    bmCanceled        \* wasCanceled() during the last command

bvars == <<bmRows, bmList, bmListSet, bmDefined, bmRefreshEnabled,
           bmCloseEnabled, bmCancelEnabled, bmRepoSet, bmEv, bmCalls,
           bmRaised, bmSent, bmCanceled>>

\* HgQueuesListGuardsDialog
VARIABLES
    gdItems,    \* items of self.guardsList: <<text, icon>>
    gdLabel,    \* text of self.patchNameLabel
    gdRepoSet,  \* self.__repodir is set
    gdEv,       \* the handler that ran last
    gdRaised,   \* the exception that escaped the last handler
    gdSent      \* the response of the last command

gvars == <<gdItems, gdLabel, gdRepoSet, gdEv, gdRaised, gdSent>>

\* E5MessageBoxWizard, QRegExpWizard and the user interface they plug into
VARIABLES
    wz    \* a record:
          \*   menuExists  ui.getMenu("wizards") is a menu
          \*   menu        the actions of the "wizards" menu, in order
          \*   list        the UI's 'wizards' action list
          \*   action      for each plugin: self.action, 0 before __initAction;
          \*               the n-th action object a plugin creates is
          \*               <<plugin, n>>
          \*   active      for each plugin: the plugin manager has it activated
          \*   ev          the method that ran last: <<plugin, name>>
          \*   ret         what that method returned
          \*   editor      the calls that method made on the active editor
          \*   dialogs     the wizard dialogs that method opened
          \*   boxes       the message boxes that method showed

wvars == <<wz>>

\* WebBrowserLanguagesDialog and the settings it reads and writes
VARIABLES
    lg    \* a record:
          \*   default   what defaultAcceptLanguages() returns (the system
          \*             locale)
          \*   store     the value under "WebBrowser/AcceptLanguages":
          \*             <<"absent">>, <<"None">>, <<"str", s>> or <<"list", l>>
          \*   list      the string list of self.__model
          \*   row       languagesList.currentIndex().row(), -1 without one
          \*   open      a dialog is open
          \*   accepted  the list the last accept() took from the model
          \*   done      accept() has run
          \*   ev        the method that ran last

lvars == <<lg>>

\* the search for the repository root in start() of the three dialogs
VARIABLES
    sr    \* a record:
          \*   dialog   the dialog whose start() runs: "reflog", "bookmarks",
          \*            "guards" ("" before the first call)
          \*   repodir  repodir (self.repodir in the reflog dialog)
          \*   pc       "idle", "loop" (at the while test), "found" (past
          \*            the loop) or "returned" (the return inside the loop)
          \*   turn     parity of the number of iterations made
          \*   cwd      the current directory of the process
          \*   roots    the directories that hold the admin directory

svars == <<sr>>

\* the variables of the other components
xvars == <<wvars, lvars, svars>>

\* the dialog and its process as one record, at the start of a handler
Dlg(name) ==
    [buf |-> buf, started |-> started, skipEntries |-> skipEntries,
     cancelled |-> cancelled, logTree |-> logTree,
     closeEnabled |-> closeEnabled, cancelEnabled |-> cancelEnabled,
     refreshEnabled |-> refreshEnabled, nextEnabled |-> nextEnabled,
     inputEnabled |-> inputEnabled, inputVisible |-> inputVisible,
     visible |-> visible, repoOk |-> repoOk, cursors |-> cursors,
     procState |-> procState, procExited |-> procExited,
     procOut |-> procOut, killTimers |-> killTimers, fetches |-> fetches,
     msgBoxes |-> msgBoxes, ev |-> name, calls |-> <<>>, raised |-> "",
     rowHistory |-> rowHistory, rowTwice |-> rowTwice,
     gitRecs |-> gitRecs,
     refreshRun |-> refreshRun, timerStale |-> timerStale]

\* the state a handler leaves
Becomes(d) ==
    \E x \in {d} :
        /\ buf' = x.buf
        /\ started' = x.started
        /\ skipEntries' = x.skipEntries
        /\ cancelled' = x.cancelled
        /\ logTree' = x.logTree
        /\ closeEnabled' = x.closeEnabled
        /\ cancelEnabled' = x.cancelEnabled
        /\ refreshEnabled' = x.refreshEnabled
        /\ nextEnabled' = x.nextEnabled
        /\ inputEnabled' = x.inputEnabled
        /\ inputVisible' = x.inputVisible
        /\ visible' = x.visible
        /\ repoOk' = x.repoOk
        /\ cursors' = x.cursors
        /\ procState' = x.procState
        /\ procExited' = x.procExited
        /\ procOut' = x.procOut
        /\ killTimers' = x.killTimers
        /\ fetches' = x.fetches
        /\ msgBoxes' = x.msgBoxes
        /\ ev' = x.ev
        /\ calls' = x.calls
        /\ raised' = x.raised
        /\ rowHistory' = x.rowHistory
        /\ rowTwice' = x.rowTwice
        /\ gitRecs' = x.gitRecs
        /\ refreshRun' = x.refreshRun
        /\ timerStale' = IF x.procState = "Running" /\ ~x.procExited
                         THEN x.timerStale
                         ELSE [i \in DOMAIN x.timerStale |-> FALSE]
        /\ UNCHANGED <<bvars, gvars, xvars>>

\* __init__: Close and Refresh disabled, Cancel the default button, the
\* tree cleared by __resetUI, the process created but not started
InitReflog ==
    /\ buf = <<>>
    /\ started = FALSE
    /\ skipEntries = 0
    /\ cancelled = FALSE
    /\ logTree = <<>>
    /\ closeEnabled = FALSE
    /\ cancelEnabled = TRUE
    /\ refreshEnabled = FALSE
    /\ nextEnabled = TRUE
    /\ inputEnabled = TRUE
    /\ inputVisible = TRUE
    /\ visible = FALSE
    /\ repoOk = FALSE
    /\ cursors = 0
    /\ procState = "NotRunning"
    /\ procExited = FALSE
    /\ procOut = <<>>
    /\ killTimers = <<>>
    /\ fetches = 0
    /\ msgBoxes = 0
    /\ ev = "init"
    /\ calls = <<>>
    /\ raised = ""
    /\ rowHistory = {}
    /\ rowTwice = FALSE
    /\ gitRecs = <<>>
    /\ refreshRun = 0
    /\ timerStale = <<>>

(***************************************************************************)
(* GitReflogBrowserDialog: handlers, as functions of the dialog record.    *)
(***************************************************************************)

Max(a, b) == IF a >= b THEN a ELSE b
Min(a, b) == IF a <= b THEN a ELSE b

Call(d, c) == [d EXCEPT !.calls = Append(@, c)]

\* the pending timers after ms milliseconds have passed
Age(timers, ms) == [i \in DOMAIN timers |-> Max(0, timers[i] - ms)]

\* __processBuffer: rows are added while the loop runs; an exception ends
\* the method before the steps after the loop
ProcessBuffer(d) ==
    LET r == ProcessBufferLoop(d.buf)
        ids == {r.rows[i][1] : i \in DOMAIN r.rows}
        d1 == [d EXCEPT !.logTree = @ \o r.rows,
                        !.rowHistory = @ \cup ids,
                        !.rowTwice = \/ @
                                     \/ ids \cap d.rowHistory # {}
                                     \/ Cardinality(ids) < Len(r.rows)]
    IN  IF r.raised # ""
        THEN [d1 EXCEPT !.raised = r.raised]
        ELSE [Call(d1, "resizeColumnsLog") EXCEPT
                 !.started = FALSE,
                 !.skipEntries = @ + r.noEntries,
                 !.nextEnabled = ~(r.noEntries < Limit /\ ~d.cancelled)]

\* __finish, lines 252-260, without the last line
FinishTailNoRefresh(d) ==
    [Call(d, "restoreOverrideCursor") EXCEPT
        !.cursors = Max(0, @ - 1),
        !.closeEnabled = TRUE,
        !.cancelEnabled = FALSE,
        !.inputEnabled = FALSE,
        !.inputVisible = FALSE]

\* __finish, lines 252-260: what it does once the process is not running
FinishTail(d) ==
    [Call(d, "restoreOverrideCursor") EXCEPT
        !.cursors = Max(0, @ - 1),
        !.closeEnabled = TRUE,
        !.cancelEnabled = FALSE,
        !.inputEnabled = FALSE,
        !.inputVisible = FALSE,
        !.refreshEnabled = TRUE]

\* __procFinished, the slot of QProcess.finished (the process state is
\* NotRunning when the signal is emitted, so __finish skips its first half)
ProcFinishedSlot(d) ==
    LET p == ProcessBuffer(Call(d, "procFinished"))
    IN  IF p.raised # "" THEN p ELSE FinishTail(p)

\* QProcess.kill(): SIGKILL to a running process; the state changes only
\* when QProcess notices the death.  Of the lines not read yet the process
\* had written the first n, which stay readable.
Kill(d, n) ==
    IF d.procState = "Running" /\ ~d.procExited
    THEN [Call(d, "kill") EXCEPT !.procExited = TRUE,
                                 !.procOut = SubSeq(@, 1, Min(n, Len(@)))]
    ELSE Call(d, "kill")

\* readyReadStandardOutput and finished as QProcess emits them when it
\* notices the end of the process: the lines still readable are read by
\* __readStdout, then __procFinished runs
ProcessDied(d) ==
    ProcFinishedSlot([d EXCEPT !.buf = @ \o d.procOut,
                               !.procOut = <<>>,
                               !.procState = "NotRunning",
                               !.procExited = FALSE])

\* StopProcess without the single-shot timer
StopProcessNoTimer(d, exits, ms) ==
    IF d.procState = "Running"
    THEN LET d1 == Call(Call(d, "terminate"), "waitForFinished")
         IN  IF exits
             THEN ProcessDied([d1 EXCEPT !.procOut =
                                      IF d.procExited THEN @ ELSE <<>>])
             ELSE d1
    ELSE d

\* closeEvent lines 97-103 and __finish lines 244-250: terminate, schedule
\* the kill, wait.  exits: the process ends within the wait, after ms
\* milliseconds, and finished is emitted inside waitForFinished; otherwise
\* the wait times out and the process is still running.
StopProcess(d, exits, ms) ==
    IF d.procState = "Running"
    THEN LET d1 == Call(Call(Call(d, "terminate"), "singleShot"), "waitForFinished")
             d2 == [d1 EXCEPT !.killTimers = Age(Append(@, KillDelay), ms),
                              !.timerStale = Append(@, FALSE)]
         IN  IF exits
             THEN ProcessDied([d2 EXCEPT !.procOut =
                                      IF d.procExited THEN @ ELSE <<>>])
             ELSE d2
    ELSE d

\* __finish
Finish(d, exits, ms) == FinishTail(StopProcess(d, exits, ms))

\* closeEvent
CloseEvent(d, exits, ms) == [StopProcess(d, exits, ms) EXCEPT !.visible = FALSE]

\* __getReflogEntries that starts the process again when it did not start
GetReflogEntriesRetry(d, skip, out, ok, n) ==
    LET d1 == [Call(d, "setOverrideCursor") EXCEPT
                  !.refreshEnabled = FALSE, !.closeEnabled = FALSE,
                  !.cancelEnabled = TRUE, !.cursors = @ + 1,
                  !.buf = <<>>, !.cancelled = FALSE, !.fetches = @ + 1]
        d2 == [Call(Kill(d1, n), "start") EXCEPT
                  !.inputEnabled = TRUE, !.inputVisible = TRUE]
    IN  IF d2.procState = "Running"
        THEN Call(d2, "waitForStarted")
        ELSE IF ok
        THEN [Call(d2, "waitForStarted") EXCEPT
                 !.procState = "Running", !.procExited = FALSE, !.procOut = out,
                 !.timerStale = [i \in DOMAIN @ |-> TRUE]]
        ELSE [Call(Call(Call(d2, "waitForStarted"), "start"), "waitForStarted") EXCEPT
                 !.procState = "Running", !.procExited = FALSE, !.procOut = out,
                 !.timerStale = [i \in DOMAIN @ |-> TRUE],
                 !.killTimers = Age(@, StartWait)]

\* __getReflogEntries without "self.buf = []"
GetReflogEntriesKeepBuf(d, skip, out, ok, n) ==
    LET d1 == [Call(d, "setOverrideCursor") EXCEPT
                  !.refreshEnabled = FALSE, !.closeEnabled = FALSE,
                  !.cancelEnabled = TRUE, !.cursors = @ + 1,
                  !.cancelled = FALSE, !.fetches = @ + 1]
        d2 == [Call(Kill(d1, n), "start") EXCEPT
                  !.inputEnabled = TRUE, !.inputVisible = TRUE]
    IN  IF d2.procState = "Running"
        THEN Call(d2, "waitForStarted")
        ELSE IF ok
        THEN [Call(d2, "waitForStarted") EXCEPT
                 !.procState = "Running", !.procExited = FALSE, !.procOut = out,
                 !.timerStale = [i \in DOMAIN @ |-> TRUE]]
        ELSE [Call(Call(d2, "waitForStarted"), "critical") EXCEPT
                 !.inputEnabled = FALSE, !.inputVisible = FALSE,
                 !.msgBoxes = @ + 1,
                 !.killTimers = Age(@, StartWait)]

\* __getReflogEntries(skip); out: what the launched command prints;
\* ok: the result of waitForStarted(5000) for a newly launched process;
\* n: see Kill
GetReflogEntries(d, skip, out, ok, n) ==
    LET d1 == [Call(d, "setOverrideCursor") EXCEPT
                  !.refreshEnabled = FALSE, !.closeEnabled = FALSE,
                  !.cancelEnabled = TRUE, !.cursors = @ + 1,
                  !.buf = <<>>, !.cancelled = FALSE, !.fetches = @ + 1]
        d2 == [Call(Kill(d1, n), "start") EXCEPT
                  !.inputEnabled = TRUE, !.inputVisible = TRUE]
    IN  IF d2.procState = "Running"
        THEN \* QProcess.start() on a running process only warns
             Call(d2, "waitForStarted")
        ELSE IF ok
        THEN [Call(d2, "waitForStarted") EXCEPT
                 !.procState = "Running", !.procExited = FALSE, !.procOut = out,
                 !.timerStale = [i \in DOMAIN @ |-> TRUE]]
        ELSE [Call(Call(d2, "waitForStarted"), "critical") EXCEPT
                 !.inputEnabled = FALSE, !.inputVisible = FALSE,
                 !.msgBoxes = @ + 1,
                 !.killTimers = Age(@, StartWait)]

\* start(projectdir); found: the search for the repository root ends at
\* a directory that holds the admin directory
StartDlg(d, found, out, ok, n) ==
    LET d1 == [d EXCEPT !.buf = <<>>, !.started = FALSE, !.skipEntries = 0,
                        !.repoOk = found]
    IN  IF ~found THEN d1
        ELSE GetReflogEntries([d1 EXCEPT !.logTree = <<>>, !.started = TRUE],
                              0, out, ok, n)


(***************************************************************************)
(* The git command: what "git log --walk-reflogs --max-count=Limit         *)
(* --skip=skip" prints.                                                    *)
(***************************************************************************)

DigitOf(n) == <<"0", "1", "2", "3", "4", "5", "6", "7", "8", "9">>[n + 1]

\* the subject git prints for an entry: "operation: text"
SubjectOf(e) == e[4] \o <<":", " ">> \o e[5]

\* the lines of a sequence of entries
RECURSIVE OutputOf(_)
OutputOf(entries) ==
    IF entries = <<>> THEN <<>>
    ELSE FormatRecord(<<Head(entries)[1], Head(entries)[2], Head(entries)[3],
                        SubjectOf(Head(entries))>>) \o OutputOf(Tail(entries))

\* entry i of the reflog as run number run prints it; the first character
\* of the commit id names the run, so that a row tells which run it is from
Entry(run, i) == <<<<DigitOf(run), DigitOf(i)>>, <<"s">>, <<"n">>, <<"o">>, <<"t">>>>

PagedEntries(run, skip) ==
    [j \in 1..Max(0, Min(Limit, TotalEntries - skip)) |-> Entry(run, skip + j)]

(***************************************************************************)
(* GitReflogBrowserDialog: actions.                                        *)
(***************************************************************************)

\* the outcomes of waitForFinished(3000) for a running process: it ends at
\* once, it ends when the wait is over, or the wait times out
WaitOutcomes ==
    IF procState # "Running" THEN {<<FALSE, 0>>}
    ELSE {<<TRUE, 0>>, <<TRUE, FinishWait>>}
         \cup (IF procExited THEN {} ELSE {<<FALSE, FinishWait>>})

TimerRoom == procState = "Running" => Len(killTimers) < MaxTimers

\* how many of the lines not read yet a process that is ended now has
\* already written: none or all of them (a part of them gives a prefix of
\* the lines, and the parser's result on it is a prefix of its result)
Written ==
    IF procState = "Running" /\ ~procExited THEN {0, Len(procOut)} ELSE {0}

\* show(): __resetUI clears the tree
Show ==
    Becomes([Dlg("show") EXCEPT !.visible = TRUE, !.logTree = <<>>])

\* start(projectdir), called by the VCS plugin
Start ==
    /\ fetches < MaxFetches
    /\ \E found \in BOOLEAN, ok \in BOOLEAN, n \in Written :
          LET es == PagedEntries(fetches + 1, 0)
          IN  Becomes(StartDlg([Dlg("start") EXCEPT
                                   !.gitRecs = IF found THEN es ELSE @,
                                   !.refreshRun = 0],
                               found, OutputOf(es), ok, n))

\* on_refreshButton_clicked
RefreshClicked ==
    /\ visible /\ refreshEnabled
    /\ fetches < MaxFetches
    /\ \E ok \in BOOLEAN, n \in Written :
          LET es == PagedEntries(fetches + 1, 0)
          IN  Becomes(StartDlg([Dlg("refresh") EXCEPT
                                   !.gitRecs = IF repoOk THEN es ELSE @,
                                   !.refreshRun =
                                       IF repoOk THEN fetches + 1 ELSE @],
                               repoOk, OutputOf(es), ok, n))

\* on_nextButton_clicked
NextClicked ==
    /\ visible /\ nextEnabled
    /\ fetches < MaxFetches
    /\ \E ok \in BOOLEAN, n \in Written :
          LET es == PagedEntries(fetches + 1, skipEntries)
          IN  IF skipEntries > 0
              THEN Becomes(GetReflogEntries([Dlg("next") EXCEPT !.gitRecs = es],
                                            skipEntries, OutputOf(es), ok, n))
              ELSE Becomes(Dlg("next"))

\* on_buttonBox_clicked(Cancel)
CancelClicked ==
    /\ visible /\ cancelEnabled
    /\ TimerRoom
    /\ \E w \in WaitOutcomes :
          Becomes(Finish([Dlg("cancel") EXCEPT !.cancelled = TRUE], w[1], w[2]))

\* closeEvent: the Close button (self.close()) or the window manager
Close ==
    /\ visible
    /\ TimerRoom
    /\ \E w \in WaitOutcomes :
          Becomes(CloseEvent(Dlg("close"), w[1], w[2]))

\* the number of lines of one record under __formatTemplate
RecordLines == Len(FormatRecord(<<<<>>, <<>>, <<>>, <<>>>>))

\* the numbers of lines one readyRead delivers: whole and half records (a
\* buffer that ends inside a record drops the part it has, one that starts
\* inside a record fails at its first line, wherever the cut is)
ReadSizes == {k \in 1..Len(procOut) : (2 * k) % RecordLines = 0}

\* __readStdout: the process has printed k more lines
ReadStdout ==
    /\ procState = "Running"
    /\ \E k \in ReadSizes :
          Becomes([Dlg("readStdout") EXCEPT
                      !.buf = @ \o SubSeq(procOut, 1, k),
                      !.procOut = SubSeq(@, k + 1, Len(@))])

\* the process ends by itself: it has printed everything, or it crashes
\* after it has written n more lines
ProcExits ==
    /\ procState = "Running" /\ ~procExited
    /\ \E n \in Written :
          Becomes([Dlg("procExits") EXCEPT !.procExited = TRUE,
                                           !.procOut = SubSeq(@, 1, n)])

\* QProcess notices the end of the process and emits finished
ProcFinished ==
    /\ procState = "Running" /\ procExited
    /\ Becomes(ProcessDied(Dlg("finished")))

\* a due single-shot timer calls self.process.kill
TimerFires ==
    /\ killTimers # <<>>
    /\ killTimers[1] = 0
    /\ \E n \in Written :
          Becomes(Kill([Dlg("timer") EXCEPT !.killTimers = Tail(@),
                                            !.timerStale = Tail(@)], n))

\* time passes in the event loop, up to the next timer becoming due
TimePasses ==
    /\ killTimers # <<>>
    /\ killTimers[1] > 0
    /\ Becomes([Dlg("timePasses") EXCEPT !.killTimers = Age(@, killTimers[1])])

NextReflog ==
    \/ Show
    \/ Start
    \/ RefreshClicked
    \/ NextClicked
    \/ CancelClicked
    \/ Close
    \/ ReadStdout
    \/ ProcExits
    \/ ProcFinished
    \/ TimerFires
    \/ TimePasses


(***************************************************************************)
(* HgBookmarksListDialog.                                                  *)
(***************************************************************************)

\* number of lines in the output of "hg bookmarks"
MaxBmLines == 3

\* __init__
InitBm ==
    /\ bmRows = <<>>
    /\ bmList = <<>>
    /\ bmListSet = FALSE
    /\ bmDefined = FALSE
    /\ bmRefreshEnabled = FALSE
    /\ bmCloseEnabled = FALSE
    /\ bmCancelEnabled = TRUE
    /\ bmRepoSet = FALSE
    /\ bmEv = "init"
    /\ bmCalls = <<>>
    /\ bmRaised = ""
    /\ bmSent = <<>>
    /\ bmCanceled = FALSE

Bm(name) ==
    [rows |-> bmRows, list |-> bmList, listSet |-> bmListSet,
     defined |-> bmDefined, refreshEnabled |-> bmRefreshEnabled,
     closeEnabled |-> bmCloseEnabled, cancelEnabled |-> bmCancelEnabled,
     repoSet |-> bmRepoSet, ev |-> name, calls |-> <<>>, raised |-> "",
     sent |-> bmSent, canceled |-> bmCanceled]

BmBecomes(b) ==
    \E x \in {b} :
        /\ bmRows' = x.rows
        /\ bmList' = x.list
        /\ bmListSet' = x.listSet
        /\ bmDefined' = x.defined
        /\ bmRefreshEnabled' = x.refreshEnabled
        /\ bmCloseEnabled' = x.closeEnabled
        /\ bmCancelEnabled' = x.cancelEnabled
        /\ bmRepoSet' = x.repoSet
        /\ bmEv' = x.ev
        /\ bmCalls' = x.calls
        /\ bmRaised' = x.raised
        /\ bmSent' = x.sent
        /\ bmCanceled' = x.canceled
        /\ UNCHANGED <<rvars, gvars, xvars>>

\* the characters of the model in code point order
CharOrder ==
    <<"\t", "\n", " ", "*", "+", "-", ".", "0", "1", "2", "3", "4", "5", "6",
      "7", "8", "9", ":", "a", "b", "c", "d", "e", "g", "i", "j", "m", "n",
      "o", "p", "q", "r", "s", "t", "u", "x", "|">>

Ord(c) == CHOOSE i \in DOMAIN CharOrder : CharOrder[i] = c

RECURSIVE StrLess(_, _)
\* a < b for strings
StrLess(a, b) ==
    IF b = <<>> THEN FALSE
    ELSE IF a = <<>> THEN TRUE
    ELSE IF Head(a) = Head(b) THEN StrLess(Tail(a), Tail(b))
    ELSE Ord(Head(a)) < Ord(Head(b))

\* the text of column 3 (the name) of a row; empty for a row without it
NameOf(row) == IF row[1] = "bookmark" THEN row[5] ELSE <<>>

RECURSIVE InsertRow(_, _)
InsertRow(sorted, row) ==
    IF sorted = <<>> THEN <<row>>
    ELSE IF StrLess(NameOf(row), NameOf(Head(sorted)))
    THEN <<row>> \o sorted
    ELSE <<Head(sorted)>> \o InsertRow(Tail(sorted), row)

RECURSIVE SortRows(_)
\* __resort: sortItems(3, Qt.AscendingOrder), a stable sort by name
SortRows(rows) ==
    IF rows = <<>> THEN <<>>
    ELSE InsertRow(SortRows(SubSeq(rows, 1, Len(rows) - 1)), rows[Len(rows)])

RECURSIVE ToInt(_)
\* int(s) for a string of decimal digits
ToInt(ds) ==
    IF ds = <<>> THEN 0
    ELSE 10 * ToInt(SubSeq(ds, 1, Len(ds) - 1)) + (Ord(ds[Len(ds)]) - Ord("0"))

AllDigits(ds) == \A i \in DOMAIN ds : ds[i] \in Digits

\* __generateItem(revision, changeset, status, name): the item is created
\* first; int(revision) raises ValueError for a revision that is not a
\* number and leaves the item without data
GenerateItem(b, revision, changeset, status, name) ==
    IF revision[1] \in Digits
    THEN IF AllDigits(revision)
         THEN [b EXCEPT !.rows = Append(@, <<"bookmark", ToInt(revision),
                                            changeset, status, name>>)]
         ELSE [b EXCEPT !.rows = Append(@, <<"blank">>),
                        !.raised = "ValueError"]
    ELSE [b EXCEPT !.rows = Append(@, <<"message", revision>>)]

\* __processOutputLine with the append to the caller's list left out
ProcessOutputLineNoAppend(b, line) ==
    LET li == SplitWS(line)
        last == li[Len(li)]
        parts == SplitOnce(last, <<":">>)
        li1 == SubSeq(li, 1, Len(li) - 1)
        current == li1[1] = <<"*">>
        li2 == IF current THEN Tail(li1) ELSE li1
        g == GenerateItem(b, parts[1], parts[2],
                          IF current THEN "current" ELSE "", JoinSp(li2))
    IN  IF li = <<>> THEN [b EXCEPT !.raised = "IndexError"]
        ELSE IF last[1] \notin Digits THEN b
        ELSE IF Len(parts) # 2 THEN [b EXCEPT !.raised = "ValueError"]
        ELSE IF li1 = <<>> THEN [b EXCEPT !.raised = "IndexError"]
        ELSE g

\* __processOutputLine(line)
ProcessOutputLine(b, line) ==
    LET li == SplitWS(line)
        last == li[Len(li)]
        parts == SplitOnce(last, <<":">>)
        li1 == SubSeq(li, 1, Len(li) - 1)
        current == li1[1] = <<"*">>
        li2 == IF current THEN Tail(li1) ELSE li1
        g == GenerateItem(b, parts[1], parts[2],
                          IF current THEN "current" ELSE "", JoinSp(li2))
    IN  IF li = <<>> THEN [b EXCEPT !.raised = "IndexError"]
        ELSE IF last[1] \notin Digits THEN b
        ELSE IF Len(parts) # 2 THEN [b EXCEPT !.raised = "ValueError"]
        ELSE IF li1 = <<>> THEN [b EXCEPT !.raised = "IndexError"]
        ELSE IF g.raised # "" THEN g
        ELSE IF b.listSet THEN [g EXCEPT !.list = Append(@, JoinSp(li2))]
        ELSE g

RECURSIVE BmLoop(_, _, _)
\* "for line in out.splitlines()": stops at an exception, and after a line
\* when the command was canceled
BmLoop(b, lines, canceled) ==
    IF lines = <<>> THEN b
    ELSE LET b1 == ProcessOutputLine(b, Head(lines))
         IN  IF b1.raised # "" \/ canceled THEN b1
             ELSE BmLoop(b1, Tail(lines), canceled)

\* __finish
BmFinish(b) ==
    LET b1 == [b EXCEPT !.calls = Append(@, "finish"),
                        !.refreshEnabled = TRUE,
                        !.closeEnabled = TRUE,
                        !.cancelEnabled = FALSE]
        b2 == IF Len(b1.rows) = 0
              THEN [GenerateItem(b1, <<"n", "o", "n", "e">>, <<>>, "", <<>>)
                       EXCEPT !.defined = FALSE]
              ELSE [b1 EXCEPT !.defined = TRUE]
    IN  [b2 EXCEPT !.rows = SortRows(@)]

\* start(path, bookmarksList); found: the search for the repository root
\* succeeds; lines: out.splitlines(); canceled: wasCanceled()
BmStartDlg(b, found, lines, canceled) ==
    LET b1 == [b EXCEPT !.rows = <<>>, !.defined = FALSE,
                        !.listSet = TRUE, !.list = <<>>]
        b2 == [b1 EXCEPT !.repoSet = TRUE, !.refreshEnabled = FALSE,
                         !.calls = Append(@, "runcommand")]
        b3 == BmLoop(b2, lines, canceled)
    IN  IF ~found THEN b1
        ELSE IF b3.raised # "" THEN b3
        ELSE BmFinish(b3)

\* a line of "hg bookmarks" for a bookmark: " * name  rev:changeset"
BmLine(it) ==
    <<" ", (IF it.status = "current" THEN "*" ELSE " "), " ">>
    \o it.name \o <<" ", " ">> \o it.rev \o <<":">> \o it.cs

\* the bookmarks of the repository
BmItems ==
    { [k |-> "bm", status |-> "", name |-> <<"b">>, rev |-> <<"1">>,
       cs |-> <<"c">>],
      [k |-> "bm", status |-> "current", name |-> <<"a">>,
       rev |-> <<"0", "2">>, cs |-> <<"d">>],
      [k |-> "bm", status |-> "", name |-> <<"a", " ", "b">>,
       rev |-> <<"3">>, cs |-> <<"c">>] }

\* the text hg prints when the repository has no bookmark
NoBookmarksSet == <<"n", "o", " ", "s", "e", "t">>

\* lines that are no bookmark entry: an empty line, a line with the
\* revision only, a revision without ":", a revision that is no number
BmOddLines ==
    { <<>>,
      <<"3", ":", "c">>,
      <<" ", "a", " ", "3">>,
      <<" ", "a", " ", "3", "x", ":", "c">> }

BmOddItems == [k : {"odd"}, line : BmOddLines]

\* outputs of "hg bookmarks" as hg prints them: a line for each bookmark,
\* or the one line that says there is none
BmOutputs ==
    UNION {[1..n -> BmItems] : n \in 0..MaxBmLines}
    \cup {<<[k |-> "odd", line |-> NoBookmarksSet]>>}

\* outputs with lines of other shapes among them
BmOddOutputs ==
    UNION {[1..n -> BmItems \cup BmOddItems
                    \cup {[k |-> "odd", line |-> NoBookmarksSet]}] :
              n \in 0..MaxBmLines}

BmLinesOf(items) ==
    [i \in DOMAIN items |->
        IF items[i].k = "bm" THEN BmLine(items[i]) ELSE items[i].line]

\* start(path, bookmarksList), called by the VCS plugin
BmStart ==
    \/ BmBecomes(BmStartDlg([Bm("start") EXCEPT !.sent = <<>>,
                                                 !.canceled = FALSE],
                            FALSE, <<>>, FALSE))
    \/ \E items \in BmOutputs, canceled \in BOOLEAN :
          BmBecomes(BmStartDlg([Bm("start") EXCEPT !.sent = items,
                                                   !.canceled = canceled],
                               TRUE, BmLinesOf(items), canceled))

\* on_refreshButton_clicked: start(self.__repoDir, self.__bookmarksList)
BmRefreshClicked ==
    /\ bmRefreshEnabled
    /\ \E items \in BmOutputs, canceled \in BOOLEAN :
          BmBecomes(BmStartDlg([Bm("refresh") EXCEPT !.sent = items,
                                                     !.canceled = canceled],
                               TRUE, BmLinesOf(items), canceled))

\* on_buttonBox_clicked(Cancel): self.__hgClient.cancel()
BmCancelClicked ==
    /\ bmCancelEnabled
    /\ BmBecomes(Bm("cancel"))

NextBm ==
    \/ BmStart
    \/ BmRefreshClicked
    \/ BmCancelClicked

\* start(path, bookmarksList) on a new dialog, the output of any shape
BmStartOdd ==
    /\ bmEv = "init"
    /\ \E items \in BmOddOutputs, canceled \in BOOLEAN :
          BmBecomes(BmStartDlg([Bm("start") EXCEPT !.sent = items,
                                                   !.canceled = canceled],
                               TRUE, BmLinesOf(items), canceled))

NextBmOdd ==
    \/ BmStartOdd
    \/ BmCancelClicked

(***************************************************************************)
(* HgQueuesListGuardsDialog.                                               *)
(***************************************************************************)

\* number of guards in a response of "hg qguard"
MaxGuards == 3

\* __init__
InitGd ==
    /\ gdItems = <<>>
    /\ gdLabel = <<>>
    /\ gdRepoSet = FALSE
    /\ gdEv = "init"
    /\ gdRaised = ""
    /\ gdSent = [k |-> "none"]

Gd(name) ==
    [items |-> gdItems, label |-> gdLabel, repoSet |-> gdRepoSet,
     ev |-> name, raised |-> "", sent |-> gdSent]

GdBecomes(g) ==
    \E x \in {g} :
        /\ gdItems' = x.items
        /\ gdLabel' = x.label
        /\ gdRepoSet' = x.repoSet
        /\ gdEv' = x.ev
        /\ gdRaised' = x.raised
        /\ gdSent' = x.sent
        /\ UNCHANGED <<rvars, bvars, xvars>>

\* self.tr("Unguarded")
UNGUARDED == <<"U", "n", "g", "u", "a", "r", "d", "e", "d">>

\* the list item of one guard of the response
GuardItemKeepSign(guard) ==
    IF StartsWith(guard, <<"+">>) THEN <<guard, "plus.png">>
    ELSE IF StartsWith(guard, <<"-">>) THEN <<guard, "minus.png">>
    ELSE <<UNGUARDED, "">>

GuardItem(guard) ==
    IF StartsWith(guard, <<"+">>) THEN <<Tail(guard), "plus.png">>
    ELSE IF StartsWith(guard, <<"-">>) THEN <<Tail(guard), "minus.png">>
    ELSE <<UNGUARDED, "">>

\* on_patchSelector_activated(patch); response: runcommand(args)[0]
PatchSelectorActivated(g, response) ==
    LET g1 == [g EXCEPT !.items = <<>>, !.label = <<>>]
        output == Strip(response)
        parts == SplitOnce(output, <<":">>)
        guardsList == SplitWS(Strip(parts[2]))
    IN  IF output = <<>> THEN g1
        ELSE IF Len(parts) # 2 THEN [g1 EXCEPT !.raised = "ValueError"]
        ELSE [g1 EXCEPT !.label = parts[1],
                        !.items = [i \in DOMAIN guardsList |->
                                      GuardItem(guardsList[i])]]

\* start(path)
GdStartDlg(g, found, response) ==
    IF ~found THEN g
    ELSE PatchSelectorActivated([g EXCEPT !.repoSet = TRUE], response)

\* the guards of a response: <<sign, name>>
GdGuards ==
    { <<"+", <<"a">>>>, <<"-", <<"b">>>>,
      <<"", <<"u", "n", "g", "u", "a", "r", "d", "e", "d">>>> }

GdGuardSeqs == UNION {[1..n -> GdGuards] : n \in 0..MaxGuards}

GdPatches == {<<"p">>, <<"p", ".", "q">>}

RECURSIVE GdTokens(_)
GdTokens(gs) ==
    IF gs = <<>> THEN <<>>
    ELSE <<" ">> \o (IF Head(gs)[1] = "" THEN <<>> ELSE <<Head(gs)[1]>>)
         \o Head(gs)[2] \o GdTokens(Tail(gs))

\* what "hg qguard" prints: "patch: guard guard ..."
GdResponseOf(r) ==
    IF r.k = "guards" THEN r.patch \o <<":">> \o GdTokens(r.guards) \o NL
    ELSE r.text

\* responses: a patch with its guards, or a text without ":", an empty
\* text, white space only
GdResponses ==
    [k : {"guards"}, patch : GdPatches, guards : GdGuardSeqs]
    \cup [k : {"odd"}, text : {<<"p">> \o NL, <<>>, <<" ">> \o NL}]

\* start(path), called by the VCS plugin
GdStart ==
    \/ GdBecomes(GdStartDlg([Gd("start") EXCEPT !.sent = [k |-> "none"]],
                            FALSE, <<>>))
    \/ \E r \in GdResponses :
          GdBecomes(GdStartDlg([Gd("start") EXCEPT !.sent = r],
                               TRUE, GdResponseOf(r)))

\* the user picks a patch in the combo box
GdPatchActivated ==
    \E r \in GdResponses :
        GdBecomes(PatchSelectorActivated([Gd("activated") EXCEPT !.sent = r],
                                         GdResponseOf(r)))

NextGd ==
    \/ GdStart
    \/ GdPatchActivated

(***************************************************************************)
(* The wizard plugins E5MessageBoxWizard and QRegExpWizard.                *)
(***************************************************************************)

\* number of times a plugin is activated
MaxActivations == 2

Plugins == {"wizards_e5messagebox", "wizards_qregexp"}

\* what __callForm returns as second element when the dialog is accepted
AcceptedFlag(p) == IF p = "wizards_qregexp" THEN "1" ELSE "True"

\* the truth value Python gives a value in "if ok:"
Truthy(v) == v \notin {"False", "0", "None"}

\* __init__ of the plugins; the menu is there or not when the UI is built
InitWz ==
    \E exists \in BOOLEAN :
        wz = [menuExists |-> exists,
              menu |-> <<>>,
              list |-> <<>>,
              action |-> [p \in Plugins |-> 0],
              active |-> [p \in Plugins |-> FALSE],
              ev |-> <<"", "init">>,
              ret |-> <<"None">>,
              editor |-> <<>>,
              dialogs |-> 0,
              boxes |-> <<>>]

\* list.remove(x) inside try/except ValueError, QWidget.removeAction(x):
\* the first occurrence goes, an absent x is no error
RemoveFirst(seq, x) ==
    IF \E i \in DOMAIN seq : seq[i] = x
    THEN LET k == CHOOSE i \in DOMAIN seq :
                     seq[i] = x /\ \A j \in 1..(i - 1) : seq[j] # x
         IN  SubSeq(seq, 1, k - 1) \o SubSeq(seq, k + 1, Len(seq))
    ELSE seq

\* activate(): __initAction, __initMenu, return None, True
Activate(w, p) ==
    LET act == <<p, w.action[p] + 1>>
    IN  [w EXCEPT !.action[p] = @ + 1,
                  !.list = Append(@, act),
                  !.menu = IF w.menuExists THEN Append(@, act) ELSE @,
                  !.ret = <<"None", "True">>]

\* deactivate() that leaves the action list alone
DeactivateMenuOnly(w, p) ==
    LET act == <<p, w.action[p]>>
    IN  [w EXCEPT !.menu = IF w.menuExists THEN RemoveFirst(@, act) ELSE @,
                  !.ret = <<"None">>]

\* deactivate()
Deactivate(w, p) ==
    LET act == <<p, w.action[p]>>
    IN  [w EXCEPT !.menu = IF w.menuExists THEN RemoveFirst(@, act) ELSE @,
                  !.list = RemoveFirst(@, act),
                  !.ret = <<"None">>]

\* the plugin manager activates a plugin that is not active
WzActivate ==
    \E p \in Plugins :
        /\ ~wz.active[p]
        /\ wz.action[p] < MaxActivations
        /\ wz' = [Activate(wz, p) EXCEPT !.active[p] = TRUE,
                                         !.ev = <<p, "activate">>,
                                         !.editor = <<>>,
                                         !.dialogs = 0,
                                         !.boxes = <<>>]
        /\ UNCHANGED <<rvars, bvars, gvars, lvars, svars>>

\* the plugin manager deactivates an active plugin
WzDeactivate ==
    \E p \in Plugins :
        /\ wz.active[p]
        /\ wz' = [Deactivate(wz, p) EXCEPT !.active[p] = FALSE,
                                           !.ev = <<p, "deactivate">>,
                                           !.editor = <<>>,
                                           !.dialogs = 0,
                                           !.boxes = <<>>]
        /\ UNCHANGED <<rvars, bvars, gvars, lvars, svars>>

\* the cursor positions of the active editor
CursorPositions == (0..1) \X (0..1)

\* the texts dlg.getCode() returns
Codes == {<<"c", "\n">>, <<"\t", "d", "\n">>}

\* __handle that inserts outside of an undo action
HandleNoUndo(w, p, editor, accepted, pos, code) ==
    LET ret == IF accepted THEN <<code, AcceptedFlag(p)>> ELSE <<"None", "False">>
    IN  IF ~editor
        THEN [w EXCEPT !.boxes = <<"No current editor">>,
                       !.dialogs = 0,
                       !.editor = <<>>]
        ELSE [w EXCEPT
                 !.boxes = <<>>,
                 !.dialogs = 1,
                 !.editor =
                   (IF accepted
                    THEN << <<"getCursorPosition">>, <<"indentation">>,
                            <<"indentationWidth">>,
                            <<"indentationsUseTabs">> >>
                    ELSE <<>>)
                   \o (IF Truthy(ret[2])
                       THEN << <<"getCursorPosition">>,
                               <<"insertAt", ret[1], pos[1], pos[2]>> >>
                       ELSE <<>>)]

\* __handle, with __callForm; editor: there is an active editor window;
\* accepted: dlg.exec_() is QDialog.Accepted; pos: the cursor position;
\* code: what dlg.getCode returns
Handle(w, p, editor, accepted, pos, code) ==
    LET ret == IF accepted THEN <<code, AcceptedFlag(p)>> ELSE <<"None", "False">>
    IN  IF ~editor
        THEN [w EXCEPT !.boxes = <<"No current editor">>,
                       !.dialogs = 0,
                       !.editor = <<>>]
        ELSE [w EXCEPT
                 !.boxes = <<>>,
                 !.dialogs = 1,
                 !.editor =
                   (IF accepted
                    THEN << <<"getCursorPosition">>, <<"indentation">>,
                            <<"indentationWidth">>,
                            <<"indentationsUseTabs">> >>
                    ELSE <<>>)
                   \o (IF Truthy(ret[2])
                       THEN << <<"getCursorPosition">>,
                               <<"beginUndoAction">>,
                               <<"insertAt", ret[1], pos[1], pos[2]>>,
                               <<"endUndoAction">> >>
                       ELSE <<>>)]

\* the action of an active plugin is triggered
WzTriggered ==
    \E p \in Plugins, editor \in BOOLEAN, accepted \in BOOLEAN,
       pos \in CursorPositions, code \in Codes :
        /\ wz.active[p]
        /\ wz' = [Handle(wz, p, editor, accepted, pos, code) EXCEPT
                     !.ev = <<p, "handle", editor, accepted, pos, code>>,
                     !.ret = <<"None">>]
        /\ UNCHANGED <<rvars, bvars, gvars, lvars, svars>>

NextWz ==
    \/ WzActivate
    \/ WzDeactivate
    \/ WzTriggered

(***************************************************************************)
(* WebBrowserLanguagesDialog: the list of accepted languages and the       *)
(* settings key it is kept under.                                          *)
(***************************************************************************)

\* the entries of addCombo (expand() of the languages of QLocale)
AllLanguages ==
    <<"English [en]", "English/United States [en-us]", "German [de]">>

\* defaultAcceptLanguages(): [] without a system locale name, else the
\* expansion of the system language
DefaultLists ==
    { <<>>,
      <<"German [de]">>,
      <<"English [en]", "English/United States [en-us]">> }

\* settings.value(key, default)
SettingsValue(store, default) ==
    IF store[1] = "absent" THEN <<"list", default>> ELSE store

\* Preferences.toList(value)
ToList(value) ==
    IF value[1] = "None" THEN <<>>
    ELSE IF value[1] # "list" THEN <<value[2]>>
    ELSE value[2]

\* what a stored value is when the settings are read back from their file:
\* an empty list comes back as None, a list of one string as that string
ReadBack(store) ==
    IF store[1] # "list" THEN store
    ELSE IF Len(store[2]) = 0 THEN <<"None">>
    ELSE IF Len(store[2]) = 1 THEN <<"str", store[2][1]>>
    ELSE store

\* QStringListModel.removeRow(row), rows counted from 0
LgRemoveRow(list, row) ==
    IF row < 0 \/ row >= Len(list) THEN list
    ELSE SubSeq(list, 1, row) \o SubSeq(list, row + 2, Len(list))

\* QStringListModel.insertRow(row): an empty string at that row
LgInsertRow(list, row) ==
    IF row < 0 \/ row > Len(list) THEN list
    ELSE SubSeq(list, 1, row) \o <<"">> \o SubSeq(list, row + 1, Len(list))

\* QStringListModel.setData(index(row), data)
LgSetData(list, row, data) ==
    IF row < 0 \/ row >= Len(list) THEN list
    ELSE [list EXCEPT ![row + 1] = data]

\* accept() that stores the list whatever it is
AcceptNoRemove(result, default, store) ==
    <<"list", result>>

\* accept(): the settings key after it
AcceptStore(result, default, store) ==
    IF result = default
    THEN <<"absent">>
    ELSE <<"list", result>>

InitLg ==
    \E default \in DefaultLists :
        lg = [default |-> default,
              store |-> <<"absent">>,
              list |-> <<>>,
              row |-> -1,
              open |-> FALSE,
              accepted |-> <<>>,
              done |-> FALSE,
              ev |-> "init"]

\* __init__: the model is filled from the settings
LgOpen ==
    /\ ~lg.open
    /\ lg' = [lg EXCEPT !.open = TRUE,
                        !.list = ToList(SettingsValue(lg.store, lg.default)),
                        !.row = -1,
                        !.ev = "open"]
    /\ UNCHANGED <<rvars, bvars, gvars, wvars, svars>>

\* the user makes a row of the list the current one
LgSelect ==
    /\ lg.open
    /\ \E row \in 0..(Len(lg.list) - 1) :
          /\ row # lg.row
          /\ lg' = [lg EXCEPT !.row = row, !.ev = "select"]
    /\ UNCHANGED <<rvars, bvars, gvars, wvars, svars>>

\* on_upButton_clicked, the button enabled by __currentChanged
LgUp ==
    /\ lg.open
    /\ lg.row > 0
    /\ LET data == lg.list[lg.row + 1]
       IN  lg' = [lg EXCEPT
                    !.list = LgSetData(LgInsertRow(LgRemoveRow(@, lg.row),
                                                   lg.row - 1),
                                       lg.row - 1, data),
                    !.row = lg.row - 1,
                    !.ev = "up"]
    /\ UNCHANGED <<rvars, bvars, gvars, wvars, svars>>

\* on_downButton_clicked, the button enabled by __currentChanged
LgDown ==
    /\ lg.open
    /\ lg.row # -1 /\ lg.row < Len(lg.list) - 1
    /\ LET data == lg.list[lg.row + 1]
       IN  lg' = [lg EXCEPT
                    !.list = LgSetData(LgInsertRow(LgRemoveRow(@, lg.row),
                                                   lg.row + 1),
                                       lg.row + 1, data),
                    !.row = lg.row + 1,
                    !.ev = "down"]
    /\ UNCHANGED <<rvars, bvars, gvars, wvars, svars>>

\* on_removeButton_clicked; the view takes a neighbouring row as current
LgRemove ==
    /\ lg.open
    /\ lg.row # -1
    /\ lg' = [lg EXCEPT !.list = LgRemoveRow(@, lg.row),
                        !.row = Min(lg.row, Len(lg.list) - 2),
                        !.ev = "remove"]
    /\ UNCHANGED <<rvars, bvars, gvars, wvars, svars>>

\* on_addButton_clicked with an entry of addCombo
LgAdd ==
    /\ lg.open
    /\ \E k \in DOMAIN AllLanguages :
          LET language == AllLanguages[k]
          IN  IF \E i \in DOMAIN lg.list : lg.list[i] = language
              THEN lg' = [lg EXCEPT !.ev = "add"]
              ELSE lg' = [lg EXCEPT
                            !.list = LgSetData(LgInsertRow(@, Len(@)),
                                               Len(@), language),
                            !.row = Len(lg.list),
                            !.ev = "add"]
    /\ UNCHANGED <<rvars, bvars, gvars, wvars, svars>>

\* accept()
LgAccept ==
    /\ lg.open
    /\ lg' = [lg EXCEPT !.store = AcceptStore(lg.list, lg.default, @),
                        !.accepted = lg.list,
                        !.done = TRUE,
                        !.open = FALSE,
                        !.ev = "accept"]
    /\ UNCHANGED <<rvars, bvars, gvars, wvars, svars>>

\* the application ends and starts again: the settings come from their file
LgRestart ==
    /\ ~lg.open
    /\ ReadBack(lg.store) # lg.store
    /\ lg' = [lg EXCEPT !.store = ReadBack(@), !.ev = "restart"]
    /\ UNCHANGED <<rvars, bvars, gvars, wvars, svars>>

NextLg ==
    \/ LgOpen
    \/ LgSelect
    \/ LgUp
    \/ LgDown
    \/ LgRemove
    \/ LgAdd
    \/ LgAccept
    \/ LgRestart


(***************************************************************************)
(* The search for the repository root: "find the root of the repo" in      *)
(* start() of the three dialogs, with the path functions of posixpath.     *)
(***************************************************************************)

\* the directories of the file system
Dirs ==
    { <<"/">>, <<"/", "a">>, <<"/", "a", "/", "b">>, <<"/", "c">> }

\* the sets of directories that hold the admin directory
RootSets == { {}, {<<"/", "a">>}, {<<"/", "c">>} }

\* the paths start() is called with
Paths ==
    Dirs \cup
    { <<>>, <<"a">>, <<"a", "/", "b">>, <<"b">>, <<"f">>,
      <<"/", "a", "/", "b", "/", "f">>, <<"a", "/">> }

\* vcs.adminDir
AdminDir(dialog) ==
    IF dialog = "reflog" THEN <<".", "g", "i", "t">> ELSE <<".", "h", "g">>

\* p.rfind(c) + 1
RFind(p, c) ==
    IF \E i \in DOMAIN p : p[i] = c
    THEN CHOOSE i \in DOMAIN p : p[i] = c /\ \A j \in (i + 1)..Len(p) : p[j] # c
    ELSE 0

RECURSIVE RStripSep(_)
\* p.rstrip('/')
RStripSep(p) ==
    IF p # <<>> /\ p[Len(p)] = "/" THEN RStripSep(SubSeq(p, 1, Len(p) - 1))
    ELSE p

\* os.path.dirname(p), as os.path.split(p)[0]
Dirname(p) ==
    LET head == SubSeq(p, 1, RFind(p, "/"))
    IN  IF head # <<>> /\ \E i \in DOMAIN head : head[i] # "/"
        THEN RStripSep(head)
        ELSE head

\* os.path.splitdrive(p): no drive letters
SplitDrive(p) == << <<>>, p >>

\* os.path.join(a, b)
Join(a, b) ==
    IF b # <<>> /\ b[1] = "/" THEN b
    ELSE IF a = <<>> \/ a[Len(a)] = "/" THEN a \o b
    ELSE a \o <<"/">> \o b

\* os.path.abspath(p) for paths without "." and "..": joined to the current
\* directory, no separator at the end
AbsPath(p, cwd) ==
    LET q == Join(cwd, p)
        r == RStripSep(q)
    IN  IF r = <<>> THEN <<"/">> ELSE r

\* os.path.isdir(p)
IsDir(p, cwd, roots, dialog) ==
    \/ AbsPath(p, cwd) \in Dirs
    \/ \E r \in roots : AbsPath(p, cwd) = Join(r, AdminDir(dialog))

\* vcs.splitPath(path)[0]
SplitPathDir(path, cwd, roots, dialog) ==
    IF IsDir(path, cwd, roots, dialog) THEN AbsPath(path, cwd)
    ELSE Dirname(path)

InitSr ==
    \E cwd \in Dirs, roots \in RootSets :
        sr = [dialog |-> "",
              repodir |-> <<>>,
              pc |-> "idle",
              turn |-> 0,
              cwd |-> cwd,
              roots |-> roots]

\* start(path) up to the while test
SrStart ==
    /\ sr.pc # "loop"
    /\ \E dialog \in {"reflog", "bookmarks", "guards"}, path \in Paths :
          sr' = [sr EXCEPT
                    !.dialog = dialog,
                    !.repodir = IF dialog = "reflog" THEN path
                                ELSE SplitPathDir(path, sr.cwd, sr.roots,
                                                  dialog),
                    !.pc = "loop",
                    !.turn = 0]
    /\ UNCHANGED <<rvars, bvars, gvars, wvars, lvars>>

\* the while test and, when it holds, one run of the loop body
SrIterate ==
    /\ sr.pc = "loop"
    /\ IF IsDir(Join(sr.repodir, AdminDir(sr.dialog)), sr.cwd, sr.roots,
                sr.dialog)
       THEN sr' = [sr EXCEPT !.pc = "found"]
       ELSE LET repodir == Dirname(sr.repodir)
            IN  sr' = [sr EXCEPT
                          !.repodir = repodir,
                          !.pc = IF SplitDrive(repodir)[2] = <<"/">>
                                 THEN "returned" ELSE "loop",
                          !.turn = 1 - @]
    /\ UNCHANGED <<rvars, bvars, gvars, wvars, lvars>>

NextSr ==
    \/ SrStart
    \/ SrIterate


(***************************************************************************)
(* Specifications: each dialog on its own.                                 *)
(***************************************************************************)

vars == <<rvars, bvars, gvars, xvars>>

\* the components after construction, the "wizards" menu in place
Init ==
    /\ InitReflog /\ InitBm /\ InitGd /\ InitWz /\ InitLg /\ InitSr
    /\ wz.menuExists
    /\ lg.default = <<>>
    /\ sr.cwd = <<"/">>
    /\ sr.roots = {}

\* the components after construction
InitAny ==
    /\ InitReflog /\ InitBm /\ InitGd /\ InitWz /\ InitLg /\ InitSr
    /\ lg.default = <<>>
    /\ sr.cwd = <<"/">>
    /\ sr.roots = {}

\* the components after construction, any system locale
InitAnyLocale ==
    /\ InitReflog /\ InitBm /\ InitGd /\ InitWz /\ InitLg /\ InitSr
    /\ wz.menuExists
    /\ sr.cwd = <<"/">>
    /\ sr.roots = {}

\* the components after construction, any file system and current directory
InitAnyFiles ==
    /\ InitReflog /\ InitBm /\ InitGd /\ InitWz /\ InitLg /\ InitSr
    /\ wz.menuExists
    /\ lg.default = <<>>

SpecReflog ==
    Init /\ [][NextReflog]_vars

SpecBookmarks ==
    Init /\ [][NextBm]_vars

SpecBmOdd ==
    Init /\ [][NextBmOdd]_vars

SpecGuards ==
    Init /\ [][NextGd]_vars

SpecWizards ==
    InitAny /\ [][NextWz]_vars

SpecLanguages ==
    InitAnyLocale /\ [][NextLg]_vars

\* the search loop runs on once it is entered
SpecRootSearch ==
    InitAnyFiles /\ [][NextSr]_vars /\ WF_vars(SrIterate)


(***************************************************************************)
(* The parser on its own: one fetch whose command prints a text drawn      *)
(* from a set of outputs, read in any chunking, ended at any point.        *)
(***************************************************************************)

\* field values as git prints them (no surrounding whitespace): an empty
\* name, an operation of two words, texts that hold ": " and "|" again
WFCommits == {<<"a">>}
WFSelectors == {<<"s">>}
WFNames == {<<>>, <<"n">>}
WFOps == {<<"o", " ", "p">>}
WFTexts == {<<"t">>, <<"t", ":", " ", "u">>, <<"t", "|", "u">>}

WFEntries ==
    {<<c, sl, n, o, t>> : c \in WFCommits, sl \in WFSelectors, n \in WFNames,
                          o \in WFOps, t \in WFTexts}

WFEntrySeqs == UNION {[1..n -> WFEntries] : n \in 0..MaxRecords}

\* lines that are not part of a whole record
OddLines ==
    { RECORDSTART \o NL,
      RECORDEND \o NL,
      COMMIT \o <<"|", "a">> \o NL,
      SELECTOR \o <<"|", "s">> \o NL,
      <<"x">> \o NL,
      NL }

\* subjects that have no ": " once the line is stripped
OddSubjects == {<<"o">>, <<"o", ":">>, <<"o", ":", " ">>, <<>>}

OddOutputs ==
    UNION {[1..n -> OddLines] : n \in 1..MaxLines}
    \cup {FormatRecord(<<<<"a">>, <<"s">>, <<"n">>, sb>>) : sb \in OddSubjects}

\* start(projectdir) when git prints whole records
StartWellFormed ==
    /\ fetches = 0
    /\ \E es \in WFEntrySeqs :
          Becomes(StartDlg([Dlg("start") EXCEPT !.gitRecs = es],
                           TRUE, OutputOf(es), TRUE, 0))

\* start(projectdir) when git prints other lines
StartOdd ==
    /\ fetches = 0
    /\ \E out \in OddOutputs :
          Becomes(StartDlg([Dlg("start") EXCEPT !.gitRecs = <<>>],
                           TRUE, out, TRUE, 0))

NextWellFormed ==
    \/ StartWellFormed
    \/ ReadStdout
    \/ ProcExits
    \/ ProcFinished

NextOdd ==
    \/ StartOdd
    \/ ReadStdout
    \/ ProcExits
    \/ ProcFinished

SpecWellFormed ==
    Init /\ [][NextWellFormed]_vars

SpecOdd ==
    Init /\ [][NextOdd]_vars

(***************************************************************************)
(* Properties of the reflog parser.                                        *)
(***************************************************************************)

\* __processBuffer ran in the last handler
ProcessedBuffer == \E i \in DOMAIN calls : calls[i] = "procFinished"

\* the buffer holds exactly the first n records of the command's output
BufferIsRecords(n) ==
    /\ n <= Len(gitRecs)
    /\ buf = OutputOf(SubSeq(gitRecs, 1, n))

\* C1: when the buffer consists of N whole records commit|C, selector|S,
\* name|M, subject|OP: TEXT, __processBuffer adds exactly N rows to the
\* tree, in output order, and row i is (C, S, M, OP, TEXT) of record i.
C1_RowPerRecord ==
    [][\A n \in 0..MaxRecords :
          (ProcessedBuffer' /\ BufferIsRecords(n)')
             => /\ raised' = ""
                /\ logTree' = logTree \o SubSeq(gitRecs, 1, n)]_vars

\* two records were parsed, the text of the first holding ": " itself and
\* the text of the second holding "|"
C1_Witness ==
    /\ ProcessedBuffer
    /\ BufferIsRecords(2)
    /\ Len(logTree) = 2
    /\ logTree[1][5] = <<"t", ":", " ", "u">>
    /\ logTree[2][5] = <<"t", "|", "u">>
    /\ logTree[2][3] = <<>>

\* C2: for every sequence of buffered lines __processBuffer finishes
\* without raising an error and reaches the steps after its loop.
C2_NeverRaises ==
    ProcessedBuffer =>
        /\ raised = ""
        /\ \E i \in DOMAIN calls : calls[i] = "resizeColumnsLog"

(***************************************************************************)
(* The reflog dialog with the scheduling of the Qt event loop: a timer     *)
(* that is due fires.                                                      *)
(***************************************************************************)

SpecReflogFair ==
    /\ Init
    /\ [][NextReflog]_vars
    /\ WF_vars(TimerFires)

\* the reflog dialog with everything that happens without the user: the git
\* command ends, the event loop delivers finished and runs its timers
\* (the weak fairness of ProcFinished is written with its enabling
\* condition, which every ProcFinished step ends)
SpecReflogLive ==
    /\ Init
    /\ [][NextReflog]_vars
    /\ WF_vars(ProcExits)
    /\ WF_vars(TimerFires)
    /\ WF_vars(TimePasses)
    /\ []<>~(procState = "Running" /\ procExited)

Has(c) == \E i \in DOMAIN calls : calls[i] = c

Count(seq, x) == Cardinality({i \in DOMAIN seq : seq[i] = x})

IsPrefix(a, b) == Len(a) <= Len(b) /\ SubSeq(b, 1, Len(a)) = a

\* C3: every output line of the bookmarks command, whatever its shape, is
\* processed without an exception, and start() reaches __finish, so that
\* Close and Refresh are enabled when it returns.
C3_StartReachesFinish ==
    bmEv = "start"
       => /\ bmRaised = ""
          /\ \E i \in DOMAIN bmCalls : bmCalls[i] = "finish"
          /\ bmCloseEnabled
          /\ bmRefreshEnabled

\* C4: on_patchSelector_activated raises no exception, whatever the
\* response of qguard is, a response without ":" included.
C4_NoColonNoError ==
    gdEv \in {"start", "activated"} => gdRaised = ""

\* a step of Cancel or closeEvent
StopStep ==
    ev' \in {"cancel", "close"}
       => IF procState = "Running"
          THEN /\ Len(calls') >= 3
               /\ SubSeq(calls', 1, 3)
                     = <<"terminate", "singleShot", "waitForFinished">>
               /\ ~Has("kill")'
               /\ Len(killTimers') = Len(killTimers) + 1
               /\ killTimers'[Len(killTimers')]
                     \in {KillDelay, Max(0, KillDelay - FinishWait)}
          ELSE /\ ~Has("terminate")'
               /\ ~Has("singleShot")'
               /\ ~Has("kill")'
               /\ killTimers' = killTimers

\* Cancel or closeEvent has sent terminate and the wait is over with the
\* process still running
IgnoredTerminate ==
    /\ ev \in {"cancel", "close"}
    /\ Has("terminate")
    /\ procState = "Running"
    /\ ~procExited

\* C5: Cancel and closeEvent on a running process call terminate, schedule
\* the kill KillDelay ms later and wait at most FinishWait ms, in this
\* order and without a kill of their own; a kill timer is only ever
\* scheduled after a terminate; on a process that is not running they
\* issue neither terminate nor kill; a process that is still running when
\* the wait is over is ended in the end.
C5_CancelEscalates ==
    /\ [][StopStep]_vars
    /\ [][Len(killTimers') > Len(killTimers) => Has("terminate")']_vars
    /\ IgnoredTerminate ~> (procExited \/ procState = "NotRunning")

C5_Witness ==
    /\ ev = "timer"
    /\ Has("kill")
    /\ cancelled
    /\ procState = "Running"
    /\ procExited

\* C6: a fetch calls QProcess.start() once; when the process is not
\* running after it, one critical message box was shown, the input group
\* is disabled and hidden, and the fetch has added no row.
C6_StartFailure ==
    [][fetches' = fetches + 1
          => /\ Count(calls', "start") = 1
             /\ procState' = "NotRunning"
                   => /\ Has("critical")'
                      /\ msgBoxes' = msgBoxes + 1
                      /\ ~inputEnabled'
                      /\ ~inputVisible'
                      /\ logTree' \in {logTree, <<>>}
                      /\ rowHistory' = rowHistory]_vars

C6_Witness ==
    /\ ev = "next"
    /\ Has("critical")
    /\ procState = "NotRunning"
    /\ msgBoxes = 1
    /\ ~inputEnabled
    /\ ~inputVisible
    /\ Len(logTree) = Limit

\* C7: when the buffer has been processed and the last fetch was the one
\* of a Refresh, the rows of the tree are rows of the output of that
\* fetch's command, in order, and the skip counter is the number of these
\* rows.
C7_RowsOfLatestRun ==
    (ProcessedBuffer /\ raised = "" /\ refreshRun = fetches /\ fetches > 0)
       => /\ IsPrefix(logTree, gitRecs)
          /\ skipEntries = Len(logTree)

RECURSIVE BmNamesOf(_)
\* the names of the bookmarks among the items of an output
BmNamesOf(items) ==
    IF items = <<>> THEN <<>>
    ELSE (IF Head(items).k = "bm" THEN <<Head(items).name>> ELSE <<>>)
         \o BmNamesOf(Tail(items))

\* the items of the last output that start() has processed
BmProcessed ==
    IF bmCanceled /\ bmSent # <<>> THEN <<bmSent[1]>> ELSE bmSent

BmRan == \E i \in DOMAIN bmCalls : bmCalls[i] = "runcommand"

\* the names in the rows of the tree that show a bookmark
BmRowNames ==
    LET IsBm(r) == r[1] = "bookmark"
        rs == SelectSeq(bmRows, IsBm)
    IN  [i \in DOMAIN rs |-> rs[i][5]]

\* C8: when start() returns without having run the command the caller's
\* list is empty; when it returns after the command the list holds the
\* names of the bookmark lines in output order, these are the names of
\* the bookmark rows of the tree, and without a bookmark the tree holds
\* the placeholder row only and the list is empty.
C8_ListHoldsNames ==
    (bmEv \in {"start", "refresh"} /\ bmRaised = "")
       => IF BmRan
          THEN /\ bmList = BmNamesOf(BmProcessed)
               /\ Len(BmRowNames) = Len(bmList)
               /\ \A i \in DOMAIN bmList :
                     Count(BmRowNames, bmList[i]) = Count(bmList, bmList[i])
               /\ bmList = <<>> => /\ Len(bmRows) = 1
                                   /\ bmRows[1][1] = "message"
          ELSE bmList = <<>>

C8_Witness ==
    /\ bmEv = "refresh"
    /\ BmRan
    /\ bmList = << <<"b">>, <<"a", " ", "b">>, <<"a">> >>
    /\ BmRowNames = << <<"a">>, <<"a", " ", "b">>, <<"b">> >>

\* the list item that the claim gives a guard <<sign, name>>
GdExpectedItem(guard) ==
    IF guard[1] = "+" THEN <<guard[2], "plus.png">>
    ELSE IF guard[1] = "-" THEN <<guard[2], "minus.png">>
    ELSE <<UNGUARDED, "">>

\* C9: after a response "patch: g1 .. gk" the label shows the patch name
\* and the list holds k items in order, "+x" as x with the plus icon, "-x"
\* as x with the minus icon, any other guard as "Unguarded" without an
\* icon; after an empty response the list and the label are empty.
C9_GuardItems ==
    gdEv \in {"start", "activated"}
       => /\ gdSent.k = "guards"
             => /\ gdRaised = ""
                /\ gdLabel = gdSent.patch
                /\ gdItems = [i \in DOMAIN gdSent.guards |->
                                 GdExpectedItem(gdSent.guards[i])]
          /\ (gdSent.k = "odd" /\ gdSent.text = <<>>)
             => /\ gdRaised = ""
                /\ gdLabel = <<>>
                /\ gdItems = <<>>

C9_Witness ==
    /\ gdEv = "activated"
    /\ gdLabel = <<"p", ".", "q">>
    /\ gdItems = << <<UNGUARDED, "">>, <<<<"a">>, "plus.png">>,
                    <<<<"b">>, "minus.png">> >>

\* C10: a readyRead callback appends the lines read to the buffer and
\* leaves the tree alone; the tree gets rows only in a handler in which
\* __procFinished has run, and it runs at most once in a handler; a fetch
\* leaves an empty buffer; no line of any command becomes a row twice.
C10_Callbacks ==
    [][/\ ev' = "readStdout"
          => /\ logTree' = logTree
             /\ \E k \in 1..Len(procOut) :
                   /\ buf' = buf \o SubSeq(procOut, 1, k)
                   /\ procOut' = SubSeq(procOut, k + 1, Len(procOut))
       /\ (logTree' # logTree /\ logTree' # <<>>) => ProcessedBuffer'
       /\ Count(calls', "procFinished") <= 1
       /\ fetches' = fetches + 1 => buf' = <<>>
       /\ ~rowTwice']_vars

C10_Witness ==
    /\ ev = "finished"
    /\ fetches = 2
    /\ Len(logTree) = 2
    /\ logTree[1][1] = <<"1", "1">>
    /\ logTree[2][1] = <<"2", "2">>

\* the actions of plugin p in a menu or list
ActionsOf(seq, p) == {i \in DOMAIN seq : seq[i][1] = p}

\* C11: activate() returns (None, True) and leaves the plugin's action in
\* the 'wizards' action list and, when there is a "wizards" menu, in the
\* menu; a plugin that is not active, after any number of activate and
\* deactivate calls in turn, has no action in the menu or in the list.
C11_ActivateDeactivate ==
    \A p \in Plugins :
        /\ wz.ev = <<p, "activate">>
              => /\ wz.ret = <<"None", "True">>
                 /\ \E i \in DOMAIN wz.list : wz.list[i] = <<p, wz.action[p]>>
                 /\ wz.menuExists
                       => \E i \in DOMAIN wz.menu : wz.menu[i] = <<p, wz.action[p]>>
        /\ ~wz.active[p]
              => /\ ActionsOf(wz.menu, p) = {}
                 /\ ActionsOf(wz.list, p) = {}

C11_Witness ==
    /\ wz.ev = <<"wizards_qregexp", "deactivate">>
    /\ wz.action["wizards_qregexp"] = 2
    /\ wz.menu = << <<"wizards_e5messagebox", 1>> >>
    /\ wz.list = << <<"wizards_e5messagebox", 1>> >>

\* the calls of the last handler that change the editor
EditorChanges ==
    LET Changes(c) == c[1] \in {"beginUndoAction", "insertAt", "endUndoAction"}
    IN  SelectSeq(wz.editor, Changes)

\* C12: __handle without an active editor shows the 'No current editor'
\* box and opens no dialog; with an editor it opens the dialog once, and
\* changes the editor only when the dialog is accepted, by
\* beginUndoAction, one insertAt of the code at the cursor position,
\* endUndoAction, in this order.
C12_InsertOnce ==
    (Len(wz.ev) = 6 /\ wz.ev[2] = "handle")
       => IF ~wz.ev[3]
          THEN /\ wz.boxes = <<"No current editor">>
               /\ wz.dialogs = 0
               /\ wz.editor = <<>>
          ELSE /\ wz.boxes = <<>>
               /\ wz.dialogs = 1
               /\ EditorChanges =
                     IF wz.ev[4]
                     THEN << <<"beginUndoAction">>,
                             <<"insertAt", wz.ev[6], wz.ev[5][1], wz.ev[5][2]>>,
                             <<"endUndoAction">> >>
                     ELSE <<>>

C12_Witness ==
    /\ Len(wz.ev) = 6
    /\ wz.ev[1] = "wizards_qregexp"
    /\ wz.ev[2] = "handle"
    /\ wz.ev[3] /\ wz.ev[4]
    /\ wz.ev[5] = <<1, 0>>
    /\ Len(EditorChanges) = 3
    /\ EditorChanges[2] = <<"insertAt", <<"\t", "d", "\n">>, 1, 0>>

\* C13: after accept() the settings key holds the accepted list when that
\* differs from the default list and is absent when it equals the default
\* list; a dialog opened after an accept(), the default list the same,
\* shows the accepted list in the accepted order.
C13_AcceptedListKept ==
    /\ lg.ev = "accept"
          => lg.store = IF lg.accepted = lg.default
                       THEN <<"absent">>
                       ELSE <<"list", lg.accepted>>
    /\ (lg.ev = "open" /\ lg.done) => lg.list = lg.accepted

C13_Witness ==
    /\ lg.ev = "open"
    /\ lg.done
    /\ lg.default = <<"English [en]", "English/United States [en-us]">>
    /\ lg.store[1] = "list"
    /\ lg.list = <<"English/United States [en-us]", "English [en]">>

\* C14: in every state of the reflog dialog the Close button is enabled
\* exactly when the Refresh button is enabled and exactly when the Cancel
\* button is disabled.
C14_ButtonStates ==
    /\ closeEnabled <=> refreshEnabled
    /\ closeEnabled <=> ~cancelEnabled

\* a fetch was cancelled while its process ran, and the buttons are in
\* the finished state
C14_Witness ==
    /\ ev = "cancel"
    /\ Count(calls, "terminate") = 1
    /\ closeEnabled /\ refreshEnabled /\ ~cancelEnabled

\* the last handler was one that ran __getReflogEntries
FetchLaunched ==
    /\ ev \in {"start", "refresh", "next"}
    /\ Has("setOverrideCursor")

\* the state __finish leaves
FinishedState ==
    /\ closeEnabled /\ refreshEnabled /\ ~cancelEnabled
    /\ cursors = 0
    /\ ~inputVisible

\* since fetch number n was launched the user has done something: a
\* handler of the user ran that is not the launch of fetch n
UserActedSince(n) ==
    \/ ev \in {"show", "cancel", "close"}
    \/ /\ ev \in {"start", "refresh", "next"}
       /\ fetches > n \/ ~Has("setOverrideCursor")

\* C15: every fetch that __getReflogEntries launches leads, unless the user
\* does something first, to the finished state: Close and Refresh enabled,
\* Cancel disabled, no override cursor left, the input group hidden.
C15_FetchFinishes ==
    \A n \in 1..MaxFetches :
        (FetchLaunched /\ fetches = n) ~> (FinishedState \/ UserActedSince(n))

\* C16: a kill timer that fires kills no process that a fetch launched
\* after the timer was scheduled.
C16_TimerKillsOwnProcess ==
    [][(/\ ev' = "timer"
        /\ procState = "Running" /\ ~procExited
        /\ procExited')
          => ~timerStale[1]]_vars

\* C17: no handler calls restoreOverrideCursor more often than override
\* cursors are set (those on the stack before it and those it sets), and
\* once Close is enabled no override cursor is left.
C17_CursorBalance ==
    [][/\ Count(calls', "restoreOverrideCursor")
             <= cursors + Count(calls', "setOverrideCursor")
       /\ closeEnabled' => cursors' = 0]_vars

\* C18: start(), Refresh, Next, Cancel and the finished slot keep the skip
\* counter equal to the number of rows of the tree: a step of one of them
\* from a state where the two are equal, after which no process runs and
\* no exception has escaped, leaves them equal.
C18_SkipIsRowCount ==
    [][(/\ ev' \in {"start", "refresh", "next", "cancel", "finished"}
        /\ skipEntries = Len(logTree)
        /\ procState' = "NotRunning"
        /\ raised' = "")
          => skipEntries' = Len(logTree')]_vars

\* C19: whenever the Refresh or the Close button is enabled, no git process
\* launched by the dialog is running.
C19_FinishedMeansStopped ==
    (refreshEnabled \/ closeEnabled)
       => ~(procState = "Running" /\ ~procExited)

\* C20: the search loop of start() ends, for every path, directory and
\* dialog: at a directory that holds the admin directory, or by the return
\* inside the loop.
C20_SearchTerminates ==
    (sr.pc = "loop") ~> (sr.pc \in {"found", "returned"})


\* the last token of the line starts with a digit
BmIsEntryLine(line) ==
    LET li == SplitWS(line)
    IN  li # <<>> /\ li[Len(li)][1] \in Digits

\* the row that the claim gives a line whose last token starts with a
\* digit: the revision before the first ":" as an integer, the changeset
\* after it, "current" after a leading "*", the other tokens as the name
BmExpectedRow(line) ==
    LET li == SplitWS(line)
        parts == SplitOnce(li[Len(li)], <<":">>)
        rest == SubSeq(li, 1, Len(li) - 1)
        current == rest # <<>> /\ rest[1] = <<"*">>
    IN  <<"bookmark", ToInt(parts[1]),
          IF Len(parts) = 2 THEN parts[2] ELSE <<>>,
          IF current THEN "current" ELSE "",
          JoinSp(IF current THEN Tail(rest) ELSE rest)>>

RECURSIVE BmExpectedRows(_)
\* the rows of the lines of an output, in output order
BmExpectedRows(lines) ==
    IF lines = <<>> THEN <<>>
    ELSE (IF BmIsEntryLine(Head(lines))
          THEN <<BmExpectedRow(Head(lines))>> ELSE <<>>)
         \o BmExpectedRows(Tail(lines))

\* every line of the last output has a last token
BmLinesHaveTokens ==
    \A i \in DOMAIN bmSent : SplitWS(BmLinesOf(bmSent)[i]) # <<>>

\* C21: after start() has run the command on lines that all have a last
\* token, every processed line whose last token starts with a digit is a
\* bookmark row (the revision before the first ":" of that token as an
\* integer, the changeset after it, status "current" after a leading "*"
\* and empty otherwise, the name the other tokens joined by single spaces)
\* with its name in the list, and the other lines give no row and no list
\* entry: the tree holds these rows sorted by name (the placeholder row
\* when there is none) and the list their names in output order.
C21_LineParsing ==
    (bmEv \in {"start", "refresh"} /\ BmRan /\ BmLinesHaveTokens)
       => LET rows == BmExpectedRows(BmLinesOf(BmProcessed))
          IN  /\ bmRows = IF rows = <<>>
                          THEN << <<"message", <<"n", "o", "n", "e">> >> >>
                          ELSE SortRows(rows)
              /\ bmList = [i \in DOMAIN rows |-> rows[i][5]]

=============================================================================
